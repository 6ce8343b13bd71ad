------------------------------ MODULE Checkout ------------------------------
(***************************************************************************)
(* The hand-off of an account to the payment provider's hosted checkout    *)
(* (apps/dashboard/src/server/dal/support.ts, startCheckout) over the      *)
(* durable checkout attempts of packages/database/src/support.ts and       *)
(* migration 0020, and the webhook that closes an attempt.                 *)
(*                                                                         *)
(* A request runs: try the account's advisory lock, read the standing,     *)
(* one transaction that closes an expired attempt and finds or opens the   *)
(* account's attempt, the provider's call under the attempt's idempotency  *)
(* key, one transaction that records and binds the answer, release.  Other *)
(* requests, the clock, the provider, the browser and the webhooks step in *)
(* between, and a request may die at any point (its connection, and so its *)
(* lock, goes with it) while its call is still on the wire.                *)
(*                                                                         *)
(* An attempt is named by its idempotency key, a provider session and the  *)
(* subscription it starts by the key they were created under: the provider *)
(* answers one session per key (external).  Status events are taken in the *)
(* form SupporterLedger justifies: what is known of a subscription is the  *)
(* latest of its status changes that has been recorded.                    *)
(***************************************************************************)
EXTENDS Integers, Sequences, FiniteSets

CONSTANTS
    Accounts,       \* account ids
    Requests,       \* the dashboard's concurrent request slots
    Keys,           \* idempotency keys an attempt may be opened under
    NoOne,          \* SQL NULL: no account, no request, no key
    AttemptLife,    \* CHECKOUT_ATTEMPT_MINUTES, in ticks of the clock
    MaxWait,        \* bound: ticks a request may wait for its connection
    MaxTime,        \* bound: the clock stops here
    MaxChanges      \* bound: status changes of one subscription

ASSUME ConstantsAssumption ==
    /\ NoOne \notin Accounts \cup Requests \cup Keys
    /\ AttemptLife \in Nat \ {0}
    /\ MaxWait \in Nat
    /\ MaxTime \in Nat
    /\ MaxChanges \in Nat

VARIABLES
    now,        \* the clock the dashboard and the provider share
    attempt,    \* checkout_attempts, by idempotency key
    session,    \* checkout_sessions: the account a session was recorded for
    lock,       \* the advisory lock of each account
    req,        \* the request handlers
    asked,      \* calls to the provider on the wire, handled or not
    provider,   \* the provider's sessions, by idempotency key
    sub,        \* the provider's status history of a session's subscription
    handed,     \* sessions whose address reached the account's browser
    completed,  \* sessions whose checkout.session.completed is recorded
    known       \* how much of a subscription's history is recorded

vars == <<now, attempt, session, lock, req, asked, provider, sub, handed,
          completed, known>>
providerVars == <<asked, provider, sub>>
ledgerVars == <<completed, known>>

-----------------------------------------------------------------------------
(* Rows. *)

Status == {"active", "past_due", "canceled"}
Phase == {"idle", "standing", "attempt", "ask", "wait", "bind"}

NoAttempt == [account |-> NoOne, expires |-> 0, session |-> NoOne, closed |-> FALSE]
AttemptRow == [account : Accounts \cup {NoOne}, expires : Nat,
               session : Keys \cup {NoOne}, closed : BOOLEAN]

NoSession == [st |-> "none", account |-> NoOne, expires |-> 0]
ProviderRow == [st : {"none", "open", "complete"}, account : Accounts \cup {NoOne},
                expires : Nat]

Idle == [pc |-> "idle", account |-> NoOne, at |-> 0, key |-> NoOne]
RequestRow == [pc : Phase, account : Accounts \cup {NoOne}, at : Nat,
               key : Keys \cup {NoOne}]

Call == [key : Keys, account : Accounts, expires : Nat]

TypeOK ==
    /\ now \in Nat
    /\ attempt \in [Keys -> AttemptRow]
    /\ session \in [Keys -> Accounts \cup {NoOne}]
    /\ lock \in [Accounts -> Requests \cup {NoOne}]
    /\ req \in [Requests -> RequestRow]
    /\ asked \subseteq Call
    /\ provider \in [Keys -> ProviderRow]
    /\ sub \in [Keys -> Seq(Status)]
    /\ handed \subseteq Keys
    /\ completed \subseteq Keys
    /\ known \in [Keys -> Nat]

Init ==
    /\ now = 0
    /\ attempt = [k \in Keys |-> NoAttempt]
    /\ session = [k \in Keys |-> NoOne]
    /\ lock = [a \in Accounts |-> NoOne]
    /\ req = [r \in Requests |-> Idle]
    /\ asked = {}
    /\ provider = [k \in Keys |-> NoSession]
    /\ sub = [k \in Keys |-> <<>>]
    /\ handed = {}
    /\ completed = {}
    /\ known = [k \in Keys |-> 0]

-----------------------------------------------------------------------------
(* What the statements read. *)

\* The attempt is on record.
Opened(k) == attempt[k].account # NoOne

\* lockOpenCheckoutAttempt: the account's attempts not closed.
OpenOf(a) == {k \in Keys : attempt[k].account = a /\ ~attempt[k].closed}

\* Mutant: every open attempt is closed, expired or not.
ExpiredOfAny(a, at) == OpenOf(a)

\* closeExpiredCheckoutAttempts: what the UPDATE of its first statement closes.
ExpiredOf(a, at) == {k \in OpenOf(a) : attempt[k].expires <= at}

\* supporterStatus counts a status event once its subscription is bound to the
\* account, which checkout.session.completed does.
StatusKnown(k) == IF k \in completed /\ known[k] > 0 THEN sub[k][known[k]] ELSE "none"

\* markFor(supporterStatus(account)) is `supporter` or `past_due`.
Standing(a) == \E k \in Keys : /\ provider[k].account = a
                               /\ StatusKnown(k) \in {"active", "past_due"}

\* Mutant: a fresh key for every call, as before migration 0020.
RequestKeyFresh(r) == CHOOSE k \in Keys : \A q \in asked : q.key # k

\* The key sent to the provider: the attempt's own.
RequestKey(r) == req[r].key

\* Mutant: the expiry is computed backwards.
ExpiryBefore(at) == at - AttemptLife

\* The instant the attempt, and the hosted session it asks for, expires.
Expiry(at) == at + AttemptLife

-----------------------------------------------------------------------------
(* startCheckout. *)

\* Mutant: the lock is tried and its answer not looked at.
LockIgnored(a) == TRUE

\* pg_try_advisory_lock of the account answers true.
LockFree(a) == lock[a] = NoOne

\* Every exit of withCheckoutLock: unlock and answer.
Release(r) ==
    /\ lock' = [lock EXCEPT ![req[r].account] = NoOne]
    /\ req' = [req EXCEPT ![r] = Idle]

\* The request takes its instant, then tries the lock; a lock that is held
\* refuses the request at once and changes nothing (checkout_in_progress).
Claim(r, a) ==
    /\ req[r].pc = "idle"
    /\ LockFree(a)
    /\ lock' = [lock EXCEPT ![a] = r]
    /\ \E at \in 0..now :
          /\ now - at <= MaxWait
          /\ req' = [req EXCEPT ![r] = [pc |-> "standing", account |-> a,
                                        at |-> at, key |-> NoOne]]
    /\ UNCHANGED <<now, attempt, session, providerVars, handed, ledgerVars>>

\* The standing is read before, and outside, the attempt's transaction; an
\* account that has one is refused (support_already_active).
ReadStanding(r) ==
    /\ req[r].pc = "standing"
    /\ \/ /\ Standing(req[r].account)
          /\ Release(r)
       \/ /\ ~Standing(req[r].account)
          /\ req' = [req EXCEPT ![r].pc = "attempt"]
          /\ UNCHANGED lock
    /\ UNCHANGED <<now, attempt, session, providerVars, handed, ledgerVars>>

\* The expired attempt of the account is closed in the attempt's transaction.
CloseExpired(a, at) ==
    [k \in Keys |-> IF k \in ExpiredOf(a, at) THEN [attempt[k] EXCEPT !.closed = TRUE]
                    ELSE attempt[k]]

\* An attempt that is open after the close is taken up; if the provider has
\* answered it, its address is handed out again and the request is done.
ReuseAttempt(r) ==
    /\ req[r].pc = "attempt"
    /\ \E k \in OpenOf(req[r].account) \ ExpiredOf(req[r].account, req[r].at) :
          /\ attempt' = CloseExpired(req[r].account, req[r].at)
          /\ \/ /\ attempt[k].session # NoOne
                /\ handed' = handed \cup {attempt[k].session}
                /\ Release(r)
             \/ /\ attempt[k].session = NoOne
                /\ req' = [req EXCEPT ![r].pc = "ask", ![r].key = k]
                /\ UNCHANGED <<lock, handed>>
    /\ UNCHANGED <<now, session, providerVars, ledgerVars>>

\* Otherwise an attempt is opened under a key never used.
OpenAttempt(r) ==
    /\ req[r].pc = "attempt"
    /\ OpenOf(req[r].account) \subseteq ExpiredOf(req[r].account, req[r].at)
    /\ \E k \in Keys :
          /\ ~Opened(k)
          /\ attempt' = [CloseExpired(req[r].account, req[r].at) EXCEPT
                            ![k] = [account |-> req[r].account,
                                    expires |-> Expiry(req[r].at),
                                    session |-> NoOne, closed |-> FALSE]]
          /\ req' = [req EXCEPT ![r].pc = "ask", ![r].key = k]
    /\ UNCHANGED <<now, session, lock, providerVars, handed, ledgerVars>>

\* createCheckoutSession: the call leaves, under the attempt's key and expiry.
Ask(r) ==
    /\ req[r].pc = "ask"
    /\ asked' = asked \cup {[key |-> RequestKey(r), account |-> req[r].account,
                             expires |-> attempt[req[r].key].expires]}
    /\ req' = [req EXCEPT ![r].pc = "wait"]
    /\ UNCHANGED <<now, attempt, session, lock, provider, sub, handed, ledgerVars>>

\* Mutant: the address leaves before the answer is bound.
AnswerHandsOut(r) ==
    /\ req[r].pc = "wait"
    /\ provider[req[r].key].st # "none"
    /\ req' = [req EXCEPT ![r].pc = "bind"]
    /\ handed' = handed \cup {req[r].key}
    /\ UNCHANGED <<now, attempt, session, lock, providerVars, ledgerVars>>

\* The answer arrives: the session the provider holds for the key.
Answer(r) ==
    /\ req[r].pc = "wait"
    /\ provider[RequestKey(r)].st # "none"
    /\ req' = [req EXCEPT ![r].pc = "bind"]
    /\ UNCHANGED <<now, attempt, session, lock, providerVars, handed, ledgerVars>>

\* Ten seconds pass, or the provider refuses, or its answer is unusable: one
\* code, checkout_unavailable, and the attempt stays as it was committed.
AskFails(r) ==
    /\ req[r].pc = "wait"
    /\ Release(r)
    /\ UNCHANGED <<now, attempt, session, providerVars, handed, ledgerVars>>

\* One transaction: insertCheckoutSession (ON CONFLICT DO NOTHING) and
\* bindCheckoutAttempt (only while unbound and open; its result is not read),
\* then the lock is released and the address handed out.
Bind(r) ==
    LET k == req[r].key  s == RequestKey(r) IN
    /\ req[r].pc = "bind"
    /\ session' = [session EXCEPT ![s] = IF @ = NoOne THEN req[r].account ELSE @]
    /\ attempt' = [attempt EXCEPT ![k].session =
                      IF @ = NoOne /\ ~attempt[k].closed THEN s ELSE @]
    /\ handed' = handed \cup {s}
    /\ Release(r)
    /\ UNCHANGED <<now, providerVars, ledgerVars>>

\* The process or its connection dies: the server drops the session's lock,
\* an open transaction rolls back, a call already sent stays on the wire.
Die(r) ==
    /\ req[r].pc # "idle"
    /\ Release(r)
    /\ UNCHANGED <<now, attempt, session, providerVars, handed, ledgerVars>>

-----------------------------------------------------------------------------
(* The provider and the browser (external). *)

\* One session per key, with the expiry and the account the call named; a
\* session that would be born expired is refused.
ProviderCreates(q) ==
    /\ q \in asked
    /\ provider[q.key].st = "none"
    /\ now < q.expires
    /\ provider' = [provider EXCEPT ![q.key] = [st |-> "open", account |-> q.account,
                                                expires |-> q.expires]]
    /\ UNCHANGED <<now, attempt, session, lock, req, asked, sub, handed, ledgerVars>>

\* A hosted session can be paid while it is open and not expired.
Payable(k) == provider[k].st = "open" /\ now < provider[k].expires

\* The account pays on a page it was sent to, and the subscription starts.
Pay(k) ==
    /\ k \in handed
    /\ Payable(k)
    /\ provider' = [provider EXCEPT ![k].st = "complete"]
    /\ sub' = [sub EXCEPT ![k] = <<"active">>]
    /\ UNCHANGED <<now, attempt, session, lock, req, asked, handed, ledgerVars>>

\* A renewal fails or recovers, or the subscription is cancelled for good.
SubscriptionChanges(k, s) ==
    /\ Len(sub[k]) \in 1..(MaxChanges - 1)
    /\ sub[k][Len(sub[k])] \notin {"canceled", s}
    /\ sub' = [sub EXCEPT ![k] = Append(@, s)]
    /\ UNCHANGED <<now, attempt, session, lock, req, asked, provider, handed, ledgerVars>>

Tick ==
    /\ now < MaxTime
    /\ now' = now + 1
    /\ UNCHANGED <<attempt, session, lock, req, providerVars, handed, ledgerVars>>

-----------------------------------------------------------------------------
(* recordWebhook: deliveries come late, in any order and more than once. *)

\* Mutant: a completion closes nothing.
CloseCompletedNever(k) == attempt

\* closeCheckoutAttemptForSession: the attempt bound to the session.
CloseCompleted(k) ==
    [j \in Keys |-> IF attempt[j].session = k THEN [attempt[j] EXCEPT !.closed = TRUE]
                    ELSE attempt[j]]

\* checkout.session.completed: recorded once, and the attempt bound to the
\* session is closed in the same transaction.
CompletedDelivered(k) ==
    /\ provider[k].st = "complete"
    /\ k \notin completed
    /\ completed' = completed \cup {k}
    /\ attempt' = CloseCompleted(k)
    /\ UNCHANGED <<now, session, lock, req, providerVars, handed, known>>

\* customer.subscription.*: the n-th change of the subscription is recorded;
\* one that is older than a change already recorded shows nothing new.
StatusDelivered(k, n) ==
    /\ n \in 1..Len(sub[k])
    /\ n > known[k]
    /\ known' = [known EXCEPT ![k] = n]
    /\ UNCHANGED <<now, attempt, session, lock, req, providerVars, handed, completed>>

-----------------------------------------------------------------------------
Request(r) ==
    \/ \E a \in Accounts : Claim(r, a)
    \/ ReadStanding(r)
    \/ ReuseAttempt(r)
    \/ OpenAttempt(r)
    \/ Ask(r)
    \/ Answer(r)
    \/ AskFails(r)
    \/ Bind(r)
    \/ Die(r)

Outside ==
    \/ \E q \in asked : ProviderCreates(q)
    \/ \E k \in Keys : Pay(k)
    \/ \E k \in Keys, s \in Status : SubscriptionChanges(k, s)
    \/ Tick
    \/ \E k \in Keys : CompletedDelivered(k)
    \/ \E k \in Keys, n \in 1..MaxChanges : StatusDelivered(k, n)

Next == (\E r \in Requests : Request(r)) \/ Outside

Spec == Init /\ [][Next]_vars

-----------------------------------------------------------------------------
(* Properties. *)

\* At no instant can two hosted sessions of one account be paid: a double
\* submission, a retry after a lost answer, a second tab and an attempt
\* replaced after its expiry all lead to one payable page.
SinglePayable ==
    \A j, k \in Keys :
        /\ Payable(j) /\ Payable(k)
        /\ provider[j].account = provider[k].account
        => j = k

\* Two submissions at once make one request: a provider call is awaited by at
\* most one handler of an account (withCheckoutLock).
OneAsking ==
    \A r, s \in Requests :
        /\ req[r].pc \in {"ask", "wait", "bind"}
        /\ req[s].pc \in {"ask", "wait", "bind"}
        /\ req[r].account = req[s].account
        => r = s

\* The session bound to an attempt is the one its key created, for its
\* account, and is on record in checkout_sessions for that account before
\* anybody can pay it.
BoundToOwnSession ==
    \A k \in Keys :
        /\ attempt[k].session # NoOne =>
              /\ provider[attempt[k].session].account = attempt[k].account
              /\ session[attempt[k].session] = attempt[k].account
        /\ provider[k].st = "complete" => attempt[k].session = k

\* The answer is bound before its address leaves, so a recorded completion
\* always closes the attempt: no address of a completed session is reused.
CompletionCloses == \A k \in completed : attempt[k].closed

\* An attempt is opened only when every earlier one of the account has come to
\* an end: its session can no longer be paid, because it expired or because
\* its completion is recorded.
OpensAfterOutcome ==
    [][\A k \in Keys : ~Opened(k) /\ Opened(k)' =>
          \A j \in Keys : /\ Opened(j)
                          /\ attempt[j].account = attempt'[k].account
                          => now >= attempt[j].expires \/ j \in completed]_vars

\* The claim at the head of startCheckout, `one subscription per account`: an
\* account never has two subscriptions that are billing at once.
Billing(k) == sub[k] # <<>> /\ sub[k][Len(sub[k])] \in {"active", "past_due"}

OneSubscription ==
    \A j, k \in Keys :
        Billing(j) /\ Billing(k) /\ provider[j].account = provider[k].account => j = k
=============================================================================
