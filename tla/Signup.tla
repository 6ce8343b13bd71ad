------------------------------- MODULE Signup -------------------------------
(***************************************************************************)
(* Sign-up of readers with the owner's approval: requestSignup,            *)
(* verifySignup, approveSignup and denySignup (apps/dashboard/src/server/  *)
(* dal/readers.ts) over signup_requests (packages/database/src/readers.ts, *)
(* migrations 0017 and 0019), and inviteAccount, which writes the same     *)
(* accounts.                                                               *)
(*                                                                         *)
(* A handler reads a row, or the accounts, and writes later in a           *)
(* transaction of its own, whose WHERE decides over what is committed by   *)
(* then.  Each works with the instant it took when it arrived.  The window *)
(* limits and the malformed address only refuse, and leave nothing.  The   *)
(* UPDATE that supersedes and the INSERT after it are one step: the row    *)
(* lock and the unique index make another transaction on the address wait. *)
(***************************************************************************)
EXTENDS Integers

CONSTANTS
    Requests,      \* sign-up request ids
    Addresses,
    Handlers,      \* requests running at once
    NoOne,         \* no request, no address
    Life,          \* OTP_LIFETIME_SECONDS, in ticks
    MaxAttempts,   \* OTP_MAX_ATTEMPTS
    MaxTime        \* bound: the clock stops here

ASSUME SignupAssumption == NoOne \notin Addresses /\ NoOne \notin Requests /\ Life \in Nat

VARIABLES
    now,
    row,        \* signup_requests
    account,    \* accounts by address: none, "invited", or the request approved
    handler,    \* the running handlers
    silent,     \* history: the answer open_exists was given with nothing open
    raised      \* history: the trigger refused a write

vars == <<now, row, account, handler, silent, raised>>

-----------------------------------------------------------------------------
Absent == [address |-> NoOne, attempts |-> 0, expires |-> 0, verified |-> FALSE,
           decision |-> "none", account |-> FALSE, superseded |-> FALSE]

SignupRow == [address : Addresses \cup {NoOne}, attempts : Nat, expires : Nat,
              verified : BOOLEAN, decision : {"none", "approved", "denied"},
              account : BOOLEAN, superseded : BOOLEAN]

Idle == [pc |-> "idle", at |-> 0, address |-> NoOne, request |-> NoOne]

HandlerRow == [pc : {"idle", "insert", "wrong", "right", "deny", "invite"}, at : Nat,
               address : Addresses \cup {NoOne}, request : Requests \cup {NoOne}]

\* Every state is well formed, and so is every row: decided only when
\* verified, an account only when approved, superseded only when neither
\* (the CHECKs of migrations 0017 and 0019).
TypeOK ==
    /\ now \in Nat
    /\ row \in [Requests -> SignupRow]
    /\ account \in [Addresses -> Requests \cup {NoOne, "invited"}]
    /\ handler \in [Handlers -> HandlerRow]
    /\ silent \in BOOLEAN
    /\ raised \in BOOLEAN
    /\ \A r \in Requests :
          /\ row[r].decision # "none" => row[r].verified
          /\ row[r].account => row[r].decision = "approved"
          /\ row[r].superseded => ~row[r].verified /\ row[r].decision = "none"

Init ==
    /\ now = 0
    /\ row = [r \in Requests |-> Absent]
    /\ account = [a \in Addresses |-> NoOne]
    /\ handler = [h \in Handlers |-> Idle]
    /\ silent = FALSE
    /\ raised = FALSE

Exists(r) == row[r].address # NoOne

\* The rows under the unique index signup_requests_open_address.
OpenOf(a) == {r \in Requests : /\ row[r].address = a
                               /\ row[r].decision = "none"
                               /\ ~row[r].superseded}

\* The rows the UPDATE of insertSignupRequest puts away.
Supersedable(a, at) ==
    {r \in OpenOf(a) : ~row[r].verified /\ row[r].expires <= at}

\* The trigger signup_request_guard, over the columns an UPDATE changes; the
\* instant of superseding is the one insertSignupRequest compared already.
GuardAllows(old, new) ==
    /\ new.attempts >= old.attempts
    /\ old.verified => new.verified
    /\ old.decision # "none" => new.decision = old.decision /\ new.account = old.account
    /\ old.superseded => new = old
    /\ ~old.superseded /\ new.superseded =>
          /\ ~old.verified
          /\ new = [old EXCEPT !.superseded = TRUE]

\* UPDATE of one row that its WHERE has found.
Update(r, new) ==
    /\ raised' = (raised \/ ~GuardAllows(row[r], new))
    /\ row' = IF GuardAllows(row[r], new) THEN [row EXCEPT ![r] = new] ELSE row

PutAway(r) == [row[r] EXCEPT !.superseded = TRUE]

Finish(h) == handler' = [handler EXCEPT ![h] = Idle]

-----------------------------------------------------------------------------
(* requestSignup. *)

\* findByNormalizedEmail: an address with an account answers as any other.
AskForAccess(h, a) ==
    /\ handler[h].pc = "idle"
    /\ account[a] = NoOne
    /\ handler' = [handler EXCEPT ![h] = [Idle EXCEPT !.pc = "insert", !.at = now,
                                                      !.address = a]]
    /\ UNCHANGED <<now, row, account, silent, raised>>

\* insertSignupRequest: supersede what has expired and insert, or find an open
\* request and undo both.
InsertRequest(h, r) ==
    LET a == handler[h].address
        at == handler[h].at
        dead == Supersedable(a, at)
        open == OpenOf(a) \ dead
    IN
    /\ handler[h].pc = "insert"
    /\ ~Exists(r)
    /\ IF open = {}
         THEN /\ raised' = (raised \/ \E q \in dead : ~GuardAllows(row[q], PutAway(q)))
              /\ row' = IF raised' # raised THEN row
                        ELSE [q \in Requests |->
                                IF q = r THEN [Absent EXCEPT !.address = a, !.expires = at + Life]
                                ELSE IF q \in dead THEN PutAway(q)
                                ELSE row[q]]
              /\ UNCHANGED silent
         ELSE /\ silent' = (silent \/ \A q \in open : ~row[q].verified /\ row[q].expires <= at)
              /\ UNCHANGED <<row, raised>>
    /\ Finish(h)
    /\ UNCHANGED <<now, account>>

-----------------------------------------------------------------------------
(* verifySignup. *)

\* The answers 'expired', 'locked' and an earlier 'verified' change nothing.
Comparable(r, at) ==
    /\ Exists(r)
    /\ row[r].decision = "none"
    /\ ~row[r].superseded
    /\ row[r].expires > at
    /\ row[r].attempts < MaxAttempts
    /\ ~row[r].verified

PresentCode(h, r) ==
    /\ handler[h].pc = "idle"
    /\ Comparable(r, now)
    /\ \E pc \in {"wrong", "right"} :
          handler' = [handler EXCEPT ![h] = [Idle EXCEPT !.pc = pc, !.at = now, !.request = r]]
    /\ UNCHANGED <<now, row, account, silent, raised>>

\* The WHERE of recordSignupAttempt.
Countable(r) == ~row[r].superseded

\* recordSignupAttempt.
WrongCode(h) ==
    LET r == handler[h].request IN
    /\ handler[h].pc = "wrong"
    /\ IF Countable(r)
         THEN Update(r, [row[r] EXCEPT !.attempts = @ + 1])
         ELSE UNCHANGED <<row, raised>>
    /\ Finish(h)
    /\ UNCHANGED <<now, account, silent>>

\* verifySignupRequest, which asks nothing of the attempts nor of the expiry.
RightCode(h) ==
    LET r == handler[h].request IN
    /\ handler[h].pc = "right"
    /\ IF ~row[r].verified /\ row[r].decision = "none" /\ ~row[r].superseded
         THEN Update(r, [row[r] EXCEPT !.verified = TRUE])
         ELSE UNCHANGED <<row, raised>>
    /\ Finish(h)
    /\ UNCHANGED <<now, account, silent>>

-----------------------------------------------------------------------------
(* The owner's decision. *)

\* Mutant: decideSignupRequest without its check of the verification.
PendingUnverified(r) == Exists(r) /\ row[r].decision = "none"

\* The WHERE of decideSignupRequest.
Pending(r) == row[r].verified /\ row[r].decision = "none"

\* Mutant: the account of an earlier approval is no obstacle.
FreeAlways(a) == a \in Addresses

\* No account of the address, and the unique index on it.
Free(a) == account[a] = NoOne

\* approveSignup: one transaction under the lock of the row.
Approve(r) ==
    /\ Pending(r)
    /\ Free(row[r].address)
    /\ Update(r, [row[r] EXCEPT !.decision = "approved", !.account = TRUE])
    /\ account' = [account EXCEPT ![row[r].address] = r]
    /\ UNCHANGED <<now, handler, silent>>

\* denySignup reads the request for its address, and decides afterwards.
ReadForDenial(h, r) ==
    /\ handler[h].pc = "idle"
    /\ Exists(r)
    /\ handler' = [handler EXCEPT ![h] = [Idle EXCEPT !.pc = "deny", !.request = r]]
    /\ UNCHANGED <<now, row, account, silent, raised>>

Deny(h) ==
    LET r == handler[h].request IN
    /\ handler[h].pc = "deny"
    /\ IF Pending(r)
         THEN Update(r, [row[r] EXCEPT !.decision = "denied"])
         ELSE UNCHANGED <<row, raised>>
    /\ Finish(h)
    /\ UNCHANGED <<now, account, silent>>

\* inviteAccount: the account by address is read, and inserted afterwards.
ReadForInvitation(h, a) ==
    /\ handler[h].pc = "idle"
    /\ Free(a)
    /\ handler' = [handler EXCEPT ![h] = [Idle EXCEPT !.pc = "invite", !.address = a]]
    /\ UNCHANGED <<now, row, account, silent, raised>>

Invite(h) ==
    LET a == handler[h].address IN
    /\ handler[h].pc = "invite"
    /\ account' = IF Free(a) THEN [account EXCEPT ![a] = "invited"] ELSE account
    /\ Finish(h)
    /\ UNCHANGED <<now, row, silent, raised>>

\* A handler dies, or its statement fails and its transaction is rolled back.
Die(h) ==
    /\ handler[h].pc # "idle"
    /\ Finish(h)
    /\ UNCHANGED <<now, row, account, silent, raised>>

Tick ==
    /\ now < MaxTime
    /\ now' = now + 1
    /\ UNCHANGED <<row, account, handler, silent, raised>>

Next ==
    \/ \E h \in Handlers :
          \/ \E a \in Addresses : AskForAccess(h, a) \/ ReadForInvitation(h, a)
          \/ \E r \in Requests : InsertRequest(h, r) \/ PresentCode(h, r) \/ ReadForDenial(h, r)
          \/ WrongCode(h) \/ RightCode(h) \/ Deny(h) \/ Invite(h) \/ Die(h)
    \/ \E r \in Requests : Approve(r)
    \/ Tick

Spec == Init /\ [][Next]_vars

-----------------------------------------------------------------------------
(* What sign-up promises. *)

\* An account from a sign-up stands on one approved, verified request of its
\* own address, and an approved request has its account: approveSignup
\* commits all of it or nothing, beside an invitation of the same address.
ApprovalWhole ==
    \A r \in Requests :
        row[r].decision = "approved" <=> row[r].account /\ account[row[r].address] = r

\* An expired code never blocks its address: the answer of an open request is
\* given only while one is live or waits for its decision (train review F4).
SilenceForAReason == ~silent

\* No statement of these handlers is ever refused by the trigger of its
\* table: what the WHEREs let through agrees with signup_request_guard.
NeverRaised == ~raised

\* An approved request and its account stand or fall together, beside an
\* invitation of the same address (approveSignup, inviteAccount); no statement
\* of the handlers is refused by the trigger of the table, whatever they read
\* before another wrote; and an expired code never blocks its address
\* (insertSignupRequest).
SignupSound == ApprovalWhole /\ NeverRaised /\ SilenceForAReason

Lives(r) == IF ~Exists(r) THEN "absent"
            ELSE IF row[r].superseded THEN "superseded"
            ELSE IF row[r].decision # "none" THEN row[r].decision
            ELSE IF row[r].verified THEN "verified"
            ELSE "requested"

Life_ == INSTANCE RequestLife WITH life <- [r \in Requests |-> Lives(r)]

\* "A request moves one way through its life": the rows implement it.
ImplementsLife == Life_!Spec
=============================================================================
