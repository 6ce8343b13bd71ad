--------------------------- MODULE SupporterLedger ---------------------------
(***************************************************************************)
(* The provider's signed webhooks and the supporter ledger they fill:      *)
(* recordWebhook (apps/dashboard/src/server/dal/support.ts) over           *)
(* packages/database/src/support.ts and migration 0018.                    *)
(*                                                                         *)
(* A delivery resolves the account from the rows committed so far, reads   *)
(* the account's mark, inserts its row (absorbing a replay), reads the     *)
(* mark again, commits, and audits a change of the mark.  Deliveries run   *)
(* beside each other at READ COMMITTED, come in any order, more than once, *)
(* and may die before their commit or before their audit; the provider     *)
(* delivers again what was not acknowledged (external).                    *)
(***************************************************************************)
EXTENDS Integers, FiniteSets

CONSTANTS
    Accounts,
    Deliveries,     \* webhook requests running at once
    Events,         \* the provider's events: [id, type, sub, customer, at, status]
    Owner,          \* the account that started a subscription's checkout, or NoOne
    Recorded,       \* subscriptions whose checkout session is in checkout_sessions
    NoOne,          \* SQL NULL
    MaxClock,       \* bound: ticks of the clock receipts are stamped with
    MaxReplays,     \* bound: deliveries of an event that is recorded or in hand
    MaxDeaths       \* bound: deliveries that die

\* What the provider's events are like: a subscription is one customer's and a
\* customer one account's, and its statuses have instants of their own.
EventsConsistent ==
    /\ \A e \in Events : /\ e.at \in Int
                         /\ e.customer # NoOne
                         /\ Owner[e.sub] \in Accounts \cup {NoOne}
    /\ \A e, f \in Events :
          /\ e.sub = f.sub => e.customer = f.customer
          /\ e.customer = f.customer => Owner[e.sub] = Owner[f.sub]
          /\ e.sub = f.sub /\ e.at = f.at /\ NoOne \notin {e.status, f.status} => e = f

VARIABLES
    rows,       \* supporter_events: [event, account, received]
    delivery,   \* the running webhook requests
    clock,      \* the dashboard's clock, which stamps receipts
    audited,    \* the mark the last supporter_changed row of an account names
    replays, deaths

vars == <<rows, delivery, clock, audited, replays, deaths>>

Mark == {"supporter", "past_due", "none"}

Free == [pc |-> "free", event |-> NoOne, received |-> 0, account |-> NoOne,
         before |-> "none", after |-> "none"]

EventRow == [event : Events, account : Accounts \cup {NoOne}, received : 0..MaxClock]

DeliveryRow == [pc : {"free", "resolve", "insert", "commit", "audit"},
                event : Events \cup {NoOne}, received : 0..MaxClock,
                account : Accounts \cup {NoOne}, before : Mark, after : Mark]

TypeOK ==
    /\ rows \subseteq EventRow
    /\ delivery \in [Deliveries -> DeliveryRow]
    /\ clock \in 0..MaxClock
    /\ audited \in [Accounts -> Mark]
    /\ replays \in 0..MaxReplays
    /\ deaths \in 0..MaxDeaths

Init ==
    /\ rows = {}
    /\ delivery = [d \in Deliveries |-> Free]
    /\ clock = 0
    /\ audited = [a \in Accounts |-> "none"]
    /\ replays = 0
    /\ deaths = 0

-----------------------------------------------------------------------------
(* The queries, over a set R of visible rows. *)

\* ORDER BY occurred_at DESC, received_at DESC LIMIT 1.
Later(r, q) == r.event.at > q.event.at \/ (r.event.at = q.event.at /\ r.received >= q.received)
Newest(R) == {r \in R : \A q \in R : Later(r, q)}

AccountOf(R) == IF R = {} THEN NoOne ELSE (CHOOSE r \in Newest(R) : TRUE).account

AccountForSubscription(R, s) == AccountOf({r \in R : r.account # NoOne /\ r.event.sub = s})

\* Mutant: the customer is not compared.
AccountForCustomerAny(R, c) == AccountOf({r \in R : r.account # NoOne})

AccountForCustomer(R, c) == AccountOf({r \in R : r.account # NoOne /\ r.event.customer = c})

\* Rows carrying the account, its subscriptions and its customers.
Own(R, a) == {r \in R : r.account = a}

\* BOUND_EVENTS: a status counts once anything it names is tied to the account.
BoundEvents(R, a) ==
    {r \in R : /\ r.event.status # NoOne
               /\ \/ r.account = a
                  \/ \E o \in Own(R, a) : \/ r.event.sub = o.event.sub
                                          \/ /\ r.event.customer # NoOne
                                             /\ r.event.customer = o.event.customer}

\* Mutant: one status per account, the newest of all (before finding F7).
LatestOfAccount(B) == Newest(B)

\* DISTINCT ON (subscription): each subscription's newest status.
LatestPerSubscription(B) ==
    UNION {Newest({r \in B : r.event.sub = s}) : s \in {r.event.sub : r \in B}}

\* supporterStatus and markFor: the best-ranked status decides.
MarkOf(R, a) ==
    LET statuses == {r.event.status : r \in LatestPerSubscription(BoundEvents(R, a))} IN
    IF statuses \cap {"active", "trialing"} # {} THEN "supporter"
    ELSE IF "past_due" \in statuses THEN "past_due" ELSE "none"

\* Mutant: the provider's customer is taken for the account.
ResolvedCustomer(R, e) == e.customer

\* The account an event resolves to: by its session, its subscription, its
\* customer, then the reference the session carries.
Resolved(R, e) ==
    LET tries == << IF e.type = "completed" /\ e.sub \in Recorded THEN Owner[e.sub] ELSE NoOne,
                    AccountForSubscription(R, e.sub),
                    AccountForCustomer(R, e.customer),
                    IF e.type = "completed" THEN Owner[e.sub] ELSE NoOne >>
        found == {i \in 1..4 : tries[i] # NoOne}
    IN IF found = {} THEN NoOne ELSE tries[CHOOSE i \in found : \A j \in found : i <= j]

-----------------------------------------------------------------------------
(* recordWebhook. *)

Become(d, new) == delivery' = [delivery EXCEPT ![d] = new]

InHand(e) == \E d \in Deliveries : delivery[d].pc # "free" /\ delivery[d].event = e
OnRecord(e) == \E r \in rows : r.event = e

\* A delivery arrives, is verified and parsed, and takes its instant.
Receive(d, e) ==
    /\ delivery[d].pc = "free"
    /\ \/ ~InHand(e) /\ ~OnRecord(e) /\ UNCHANGED replays
       \/ (InHand(e) \/ OnRecord(e)) /\ replays < MaxReplays /\ replays' = replays + 1
    /\ Become(d, [Free EXCEPT !.pc = "resolve", !.event = e, !.received = clock])
    /\ UNCHANGED <<rows, clock, audited, deaths>>

\* The account and its mark, from what is committed.
Resolve(d) ==
    /\ delivery[d].pc = "resolve"
    /\ LET a == Resolved(rows, delivery[d].event) IN
       Become(d, [delivery[d] EXCEPT !.pc = "insert", !.account = a,
                                     !.before = IF a = NoOne THEN "none" ELSE MarkOf(rows, a)])
    /\ UNCHANGED <<rows, clock, audited, replays, deaths>>

RowOf(d) == [event |-> delivery[d].event, account |-> delivery[d].account,
             received |-> delivery[d].received]

\* Mutant: the replay is decided by a read, not by the unique constraint, so a
\* row another delivery has not committed yet does not stop it.
MayInsertRead(d) == TRUE

\* The unique constraint makes the insert wait for a row of the same event
\* that is not committed yet.
MayInsert(d) ==
    \A o \in Deliveries : delivery[o].pc = "commit" => delivery[o].event # delivery[d].event

\* insertSupporterEvent; the mark is read again with the row in place.
Insert(d) ==
    /\ delivery[d].pc = "insert"
    /\ MayInsert(d)
    /\ IF OnRecord(delivery[d].event)
       THEN Become(d, Free)
       ELSE Become(d, [delivery[d] EXCEPT !.pc = "commit",
                         !.after = IF delivery[d].account = NoOne THEN "none"
                                   ELSE MarkOf(rows \cup {RowOf(d)}, delivery[d].account)])
    /\ UNCHANGED <<rows, clock, audited, replays, deaths>>

\* The row becomes visible; an unchanged mark ends the request.
Commit(d) ==
    /\ delivery[d].pc = "commit"
    /\ rows' = rows \cup {RowOf(d)}
    /\ Become(d, IF delivery[d].before = delivery[d].after THEN Free
                 ELSE [delivery[d] EXCEPT !.pc = "audit"])
    /\ UNCHANGED <<clock, audited, replays, deaths>>

\* The supporter_changed row names the new mark.
Audit(d) ==
    /\ delivery[d].pc = "audit"
    /\ audited' = [audited EXCEPT ![delivery[d].account] = delivery[d].after]
    /\ Become(d, Free)
    /\ UNCHANGED <<rows, clock, replays, deaths>>

\* The request dies: what is not committed is gone.
Die(d) ==
    /\ delivery[d].pc # "free"
    /\ deaths < MaxDeaths
    /\ deaths' = deaths + 1
    /\ Become(d, Free)
    /\ UNCHANGED <<rows, clock, audited, replays>>

Tick ==
    /\ clock < MaxClock
    /\ clock' = clock + 1
    /\ UNCHANGED <<rows, delivery, audited, replays, deaths>>

Step(d) == Resolve(d) \/ Insert(d) \/ Commit(d) \/ Audit(d)

Next ==
    \/ \E d \in Deliveries : (\E e \in Events : Receive(d, e)) \/ Step(d) \/ Die(d)
    \/ Tick

Spec == Init /\ [][Next]_vars

-----------------------------------------------------------------------------
(* Properties. *)

Known == {r.event : r \in rows}

Abstract == INSTANCE SupporterMark
               WITH known <- Known, mark <- [a \in Accounts |-> MarkOf(rows, a)]

\* The ledger implements the abstract mark: whatever the order of arrival, a
\* committed event moves the marks to what the set of known events implies.
ImplementsMark == Abstract!Spec

\* One event is recorded once, however many deliveries of it run at once.
OneRowPerEvent == \A r, q \in rows : r.event = q.event => r = q

\* No row ties a subscription to an account that did not start its checkout,
\* and a subscription nobody here started stays untied.
TiedToOwner == \A r \in rows : r.account # NoOne => r.account = Owner[r.event.sub]

\* The claim of docs/CAS-008-REPORT.md, section 7 (F6): the webhook's
\* before-and-after comparison sees a change and audits it; when no delivery
\* is running, the last audited mark of an account is its mark.
ChangesAudited ==
    (\A d \in Deliveries : delivery[d].pc = "free") =>
        \A a \in Accounts : audited[a] = MarkOf(rows, a)
=============================================================================
