------------------------------- MODULE Login -------------------------------
(***************************************************************************)
(* Sign-in by username and password: SessionService.login (apps/dashboard/ *)
(* src/server/auth/session.ts) with its throttle, in the memory of one     *)
(* process (rate-limit.ts) or in a table all processes share               *)
(* (postgres-store.ts), the gate in front of the verifier (password.ts)    *)
(* and provisionAccount (dal/mutate.ts), which makes an account or rotates *)
(* its password.                                                           *)
(*                                                                         *)
(* A login is a row of statements with nothing held between them: the      *)
(* failures are read before a password is verified and written after.  A   *)
(* process runs one callback at a time, and what a callback has woken      *)
(* before it takes anything new.  A password is a number, 0 a wrong one;   *)
(* an expired account is a disabled one to a login.  What becomes of a     *)
(* session afterwards is Sessions'.                                        *)
(***************************************************************************)
EXTENDS Integers, Sequences, FiniteSets, SequencesExt

CONSTANTS
    Requests,       \* logins running at once
    Processes,      \* application instances
    Users,          \* names submitted, with an account or without
    Networks,
    Shared,         \* whether the stores are PostgreSQL's
    AccountLimit,   \* ACCOUNT_FAILURE_LIMIT
    NetworkLimit,   \* NETWORK_ATTEMPT_LIMIT
    Window,         \* WINDOW_SECONDS
    MaxConcurrent,  \* of a gate
    MaxWaiting,     \* of a gate
    MaxTime,        \* bound: the clock stops here
    MaxLogins,      \* bound: logins in all
    MaxChanges      \* bound: changes of accounts, and crashes

VARIABLES
    now,
    account,    \* accounts: whether there is one, its password
    bucket,     \* the throttle's windows, of names and of networks
    gate,       \* processes: verifications running, waiting and woken
    login,      \* the logins
    issued,     \* sessions, with the login each came from
    admin,      \* the administrator's operation
    logins, changes

vars == <<now, account, bucket, gate, login, issued, admin, logins, changes>>

-----------------------------------------------------------------------------
Keys == Users \cup Networks

Account == [st : {"absent", "active", "disabled"}, password : Nat]

\* A bucket of no attempt is no bucket.
Bucket == [start : Nat, count : Nat]

NoBucket == [start |-> 0, count |-> 0]

Gate == [active : Nat, waiting : Seq(Requests), woken : Seq(Requests)]

OpenGate == [active |-> 0, waiting |-> <<>>, woken |-> <<>>]

Idle == [pc |-> "idle", process |-> 0, name |-> "", network |-> "", at |-> 0, guess |-> 0,
         read |-> [st |-> "absent", password |-> 0], right |-> FALSE,
         atArrival |-> [st |-> "absent", password |-> 0]]

\* `atArrival` is history: the account when the login arrived.
Row == [pc : {"idle", "network", "account", "find", "gate", "waiting", "verifying", "verdict",
              "issue"},
        process : Processes \cup {0}, name : Users \cup {""}, network : Networks \cup {""},
        at : Nat, guess : Nat, read : Account, right : BOOLEAN, atArrival : Account]

Issued == [user : Users, guess : Nat, read : Account, atArrival : Account]

Resting == [pc |-> "idle", user |-> "", password |-> 0]

Operation == [pc : {"idle", "find", "insert", "rotate", "revoke"}, user : Users \cup {""},
              password : Nat]

TypeOK ==
    /\ now \in 0..MaxTime
    /\ account \in [Users -> Account]
    /\ bucket \in [Keys -> Bucket]
    /\ DOMAIN gate = Processes /\ \A p \in Processes : gate[p] \in Gate
    /\ login \in [Requests -> Row]
    /\ issued \subseteq Issued
    /\ admin \in Operation
    /\ logins \in 0..MaxLogins /\ changes \in 0..MaxChanges

Init ==
    /\ now = 0
    /\ account \in [Users -> {[st |-> "absent", password |-> 0], [st |-> "active", password |-> 1]}]
    /\ bucket = [k \in Keys |-> NoBucket]
    /\ gate = [p \in Processes |-> OpenGate]
    /\ login = [r \in Requests |-> Idle]
    /\ issued = {}
    /\ admin = Resting
    /\ logins = 0 /\ changes = 0

-----------------------------------------------------------------------------
(* The throttle. *)

Within(b, at) == b.count > 0 /\ at - b.start < Window

\* bump, bumpThrottleBucket: one statement.
Bumped(b, at) == IF Within(b, at) THEN [b EXCEPT !.count = @ + 1] ELSE [start |-> at, count |-> 1]

\* Mutant: the limit itself is let through.
LockedPast(u, at) == Within(bucket[u], at) /\ bucket[u].count > AccountLimit

\* The account's half of check.
Locked(u, at) == Within(bucket[u], at) /\ bucket[u].count >= AccountLimit

Done(r) == login' = [login EXCEPT ![r] = Idle]

\* The network's half of check counts the attempt, let through or not.
CheckNetwork(r) ==
    LET w == login[r].network
        b == Bumped(bucket[w], login[r].at)
    IN
    /\ Shared
    /\ login[r].pc = "network"
    /\ bucket' = [bucket EXCEPT ![w] = b]
    /\ IF b.count > NetworkLimit THEN Done(r) ELSE login' = [login EXCEPT ![r].pc = "account"]
    /\ UNCHANGED <<now, account, gate, issued, admin, logins, changes>>

\* getThrottleBucket, and the account's half.
CheckAccount(r) ==
    /\ login[r].pc = "account"
    /\ IF Locked(login[r].name, login[r].at) THEN Done(r)
       ELSE login' = [login EXCEPT ![r].pc = "find"]
    /\ UNCHANGED <<now, account, bucket, gate, issued, admin, logins, changes>>

\* LoginThrottle.check: both halves in one step of the one process.
CheckHere(r) ==
    LET w == login[r].network
        b == Bumped(bucket[w], login[r].at)
    IN
    /\ ~Shared
    /\ login[r].pc = "network"
    /\ bucket' = [bucket EXCEPT ![w] = b]
    /\ IF b.count > NetworkLimit \/ Locked(login[r].name, login[r].at) THEN Done(r)
       ELSE login' = [login EXCEPT ![r].pc = "find"]
    /\ UNCHANGED <<now, account, gate, issued, admin, logins, changes>>

-----------------------------------------------------------------------------
(* The gate. *)

\* What a process has woken runs before anything new does.
Quiet(p) == gate[p].woken = <<>>

\* findByUsername; a name without an account is verified against dummyHash.
Find(r) ==
    /\ login[r].pc = "find"
    /\ login' = [login EXCEPT ![r].pc = "gate", ![r].read = account[login[r].name]]
    /\ UNCHANGED <<now, account, bucket, gate, issued, admin, logins, changes>>

\* Mutant: one more than the limit runs.
FullLate(p) == gate[p].active > MaxConcurrent

Full(p) == gate[p].active >= MaxConcurrent

\* VerificationGate.run: at once, in the queue, or busy.
Enter(r) ==
    LET p == login[r].process IN
    /\ login[r].pc = "gate"
    /\ Quiet(p)
    /\ \/ /\ ~Full(p)
          /\ gate' = [gate EXCEPT ![p].active = @ + 1]
          /\ login' = [login EXCEPT ![r].pc = "verifying"]
       \/ /\ Full(p) /\ Len(gate[p].waiting) < MaxWaiting
          /\ gate' = [gate EXCEPT ![p].waiting = Append(@, r)]
          /\ login' = [login EXCEPT ![r].pc = "waiting"]
       \/ /\ Full(p) /\ Len(gate[p].waiting) >= MaxWaiting
          /\ Done(r)
          /\ UNCHANGED gate
    /\ UNCHANGED <<now, account, bucket, issued, admin, logins, changes>>

\* verifyPassword, which answers false where the verifier throws.
Matches(r) == login[r].read.password # 0 /\ login[r].guess = login[r].read.password

\* Mutant: only a password that was right wakes the next.
ReleasedOnSuccess(g, ok) ==
    IF g.waiting = <<>> \/ ~ok THEN [g EXCEPT !.active = @ - 1]
    ELSE [active |-> g.active - 1, waiting |-> Tail(g.waiting),
          woken |-> Append(g.woken, Head(g.waiting))]

\* The end of run: the place is free, and the first that waits is woken.
Released(g, ok) ==
    IF g.waiting = <<>> THEN [g EXCEPT !.active = @ - 1]
    ELSE [active |-> g.active - 1, waiting |-> Tail(g.waiting),
          woken |-> Append(g.woken, Head(g.waiting))]

Verify(r) ==
    LET p == login[r].process IN
    /\ login[r].pc = "verifying"
    /\ Quiet(p)
    /\ gate' = [gate EXCEPT ![p] = Released(gate[p], Matches(r))]
    /\ login' = [login EXCEPT ![r].pc = "verdict", ![r].right = Matches(r)]
    /\ UNCHANGED <<now, account, bucket, issued, admin, logins, changes>>

\* A woken login takes the place left for it.
Resume(p) ==
    /\ gate[p].woken # <<>>
    /\ gate' = [gate EXCEPT ![p].woken = Tail(@), ![p].active = @ + 1]
    /\ login' = [login EXCEPT ![Head(gate[p].woken)].pc = "verifying"]
    /\ UNCHANGED <<now, account, bucket, issued, admin, logins, changes>>

-----------------------------------------------------------------------------
(* The login. *)

\* The place of a login says nothing of it: the next takes one that is free.
FreePlace == CHOOSE r \in Requests : login[r].pc = "idle"

\* A login arrives at a process and takes its instant.
Arrive(r, p, u, w, guess) ==
    /\ login[r].pc = "idle" /\ r = FreePlace
    /\ logins < MaxLogins
    /\ logins' = logins + 1
    /\ login' = [login EXCEPT ![r] =
                    [pc |-> "network", process |-> p, name |-> u, network |-> w, at |-> now,
                     guess |-> guess, read |-> Idle.read, right |-> FALSE, atArrival |-> account[u]]]
    /\ UNCHANGED <<now, account, bucket, gate, issued, admin, changes>>

\* Mutant: whether the account is disabled is left to the session.
AcceptedDisabled(r) == login[r].read.st # "absent" /\ login[r].right

\* The account as it was read is there, usable, and its password was given.
Accepted(r) == login[r].read.st = "active" /\ login[r].right

\* recordFailure, at the instant the login arrived.
Fail(r) ==
    /\ login[r].pc = "verdict"
    /\ ~Accepted(r)
    /\ bucket' = [bucket EXCEPT ![login[r].name] = Bumped(@, login[r].at)]
    /\ Done(r)
    /\ UNCHANGED <<now, account, gate, issued, admin, logins, changes>>

\* recordSuccess: the name's failures are forgotten, the network's are not.
Succeed(r) ==
    /\ login[r].pc = "verdict"
    /\ Accepted(r)
    /\ bucket' = [bucket EXCEPT ![login[r].name] = NoBucket]
    /\ login' = [login EXCEPT ![r].pc = "issue"]
    /\ UNCHANGED <<now, account, gate, issued, admin, logins, changes>>

\* issue inserts the session.
Issue(r) ==
    /\ login[r].pc = "issue"
    /\ issued' = issued \cup {[user |-> login[r].name, guess |-> login[r].guess,
                               read |-> login[r].read, atArrival |-> login[r].atArrival]}
    /\ Done(r)
    /\ UNCHANGED <<now, account, bucket, gate, admin, logins, changes>>

\* A statement fails, and the login with it.
Lose(r) ==
    /\ Shared
    /\ login[r].pc \in {"network", "account", "find", "verdict", "issue"}
    /\ changes < MaxChanges
    /\ changes' = changes + 1
    /\ Done(r)
    /\ UNCHANGED <<now, account, bucket, gate, issued, admin, logins>>

\* A process starts again: its logins are gone, and with them what the memory
\* stores held but the accounts of the seed file.
Restart(p) ==
    /\ changes < MaxChanges
    /\ changes' = changes + 1
    /\ gate' = [gate EXCEPT ![p] = OpenGate]
    /\ login' = [r \in Requests |-> IF login[r].process = p THEN Idle ELSE login[r]]
    /\ bucket' = IF Shared THEN bucket ELSE [k \in Keys |-> NoBucket]
    /\ issued' = IF Shared THEN issued ELSE {}
    /\ UNCHANGED <<now, account, admin, logins>>

-----------------------------------------------------------------------------
(* The administrator. *)

\* provisionAccount hashes the password before it looks for the account.
Provision(u) ==
    /\ admin.pc = "idle"
    /\ changes < MaxChanges
    /\ changes' = changes + 1
    /\ admin' = [pc |-> "find", user |-> u, password |-> account[u].password + 1]
    /\ UNCHANGED <<now, account, bucket, gate, login, issued, logins>>

\* An account that exists is refused, or rotated when that was asked for and
\* leaves its role and expiry as they are.
FindExisting ==
    /\ admin.pc = "find"
    /\ admin' \in IF account[admin.user].st = "absent" THEN {[admin EXCEPT !.pc = "insert"]}
                  ELSE {Resting, [admin EXCEPT !.pc = "rotate"]}
    /\ UNCHANGED <<now, account, bucket, gate, login, issued, logins, changes>>

\* insertAccount.
Insert ==
    /\ admin.pc = "insert"
    /\ account' = [account EXCEPT ![admin.user] = [st |-> "active", password |-> admin.password]]
    /\ admin' = Resting
    /\ UNCHANGED <<now, bucket, gate, login, issued, logins, changes>>

\* setAccountPasswordHash.
Rotate ==
    /\ admin.pc = "rotate"
    /\ account' = [account EXCEPT ![admin.user].password = admin.password]
    /\ admin' = [admin EXCEPT !.pc = "revoke"]
    /\ UNCHANGED <<now, bucket, gate, login, issued, logins, changes>>

\* setAccountDisabled.
Disable(u) ==
    /\ admin.pc = "idle"
    /\ account[u].st = "active"
    /\ changes < MaxChanges
    /\ changes' = changes + 1
    /\ account' = [account EXCEPT ![u].st = "disabled"]
    /\ admin' = [pc |-> "revoke", user |-> u, password |-> 0]
    /\ UNCHANGED <<now, bucket, gate, login, issued, logins>>

\* revokeAllSessions; a login past its reading may still add one.
Revoke ==
    /\ admin.pc = "revoke"
    /\ issued' = {i \in issued : i.user # admin.user}
    /\ admin' = Resting
    /\ UNCHANGED <<now, account, bucket, gate, login, logins, changes>>

Tick ==
    /\ now < MaxTime
    /\ now' = now + 1
    /\ UNCHANGED <<account, bucket, gate, login, issued, admin, logins, changes>>

-----------------------------------------------------------------------------
SignIn(r) ==
    \/ \E p \in Processes, u \in Users, w \in Networks, g \in 0..(1 + MaxChanges) :
          Arrive(r, p, u, w, g)
    \/ CheckNetwork(r) \/ CheckAccount(r) \/ CheckHere(r)
    \/ Find(r) \/ Enter(r) \/ Verify(r)
    \/ Fail(r) \/ Succeed(r) \/ Issue(r) \/ Lose(r)

Next ==
    \/ \E r \in Requests : SignIn(r)
    \/ \E p \in Processes : Resume(p) \/ Restart(p)
    \/ \E u \in Users : Provision(u) \/ Disable(u)
    \/ FindExisting \/ Insert \/ Rotate \/ Revoke
    \/ Tick

Spec == Init /\ [][Next]_vars

-----------------------------------------------------------------------------
(* Properties. *)

Running(p) == {r \in Requests : login[r].pc = "verifying" /\ login[r].process = p}

\* No process verifies or queues more than its gate's limits, whatever arrives
\* between the end of one verification and the start of the one it wakes, and
\* a login waits only while every place is taken or left for one woken: a
\* verification that ends, however it ends, never leaves the queue asleep
\* (VerificationGate.run).
GateHolds ==
    \A p \in Processes :
        LET g == gate[p] IN
        /\ g.active = Cardinality(Running(p))
        /\ g.active <= MaxConcurrent
        /\ Len(g.waiting) <= MaxWaiting
        /\ g.waiting # <<>> => g.active + Len(g.woken) = MaxConcurrent
        /\ ToSet(g.waiting) \cup ToSet(g.woken)
              = {r \in Requests : login[r].pc = "waiting" /\ login[r].process = p}

\* The failures are read before a password is verified and written after, so
\* logins running at once may pass the limit; they pass it by no more than
\* their number, one name's window over all processes (throttle.check,
\* recordFailure).
GuessesBounded ==
    \A u \in Users : bucket[u].count <= AccountLimit - 1 + Cardinality(Requests)

\* A session comes from a login that gave the password of the account as it
\* was read, on an account that was neither disabled nor under a newer
\* password when the login arrived: what an administrator did before a login
\* came in binds it (login, provisionAccount, setAccountDisabled).
SessionEarned ==
    \A i \in issued :
        /\ i.guess = i.read.password /\ i.guess # 0
        /\ i.atArrival.st # "disabled"
        /\ i.guess >= i.atArrival.password
=============================================================================
